---- MODULE Spec2Model ----
(***************************************************************************)
(* Behaviour classification core of RAT (Rotational/Angular Tracking).     *)
(*                                                                         *)
(* The model follows src/classifier.py: one BehaviorClassifier instance   *)
(* with its two fields (prev_nose, arena_bounds) and the operations        *)
(* set_arena and classify_full.  The arguments and the outcome of the      *)
(* latest classify_full call are kept in the state so that properties of   *)
(* a call can be stated as invariants.                                     *)
(*                                                                         *)
(* Numbers.  Pixel coordinates are integers.  A Euclidean distance         *)
(* sqrt(dx^2 + dy^2) is represented by its square dx^2 + dy^2, and a       *)
(* comparison  distance < c  by  square < c*c ; IEEE sqrt is monotone and  *)
(* exact on perfect squares, so every comparison of the code has the same  *)
(* outcome.  A head angle round(degrees, 1) is represented in tenths of a  *)
(* degree (45.0 is 450).  arena_height / 4 is a float division, so         *)
(* relative_y < zone_height * k  is  4 * relative_y < k * arena_height.    *)
(***************************************************************************)
EXTENDS Integers, Sequences, FiniteSets

VARIABLES
    prev_nose,      \* BehaviorClassifier.prev_nose (None or a point)
    arena_bounds,   \* BehaviorClassifier.arena_bounds (None or <<x1,y1,x2,y2>>)
    calls,          \* number of classify_full calls made on the classifier
    run,            \* length of the latest run of calls with identical
                    \* arguments under an unchanged arena (history)
    keypoints,      \* argument of the latest classify_full call
    frame_height,   \* argument of the latest classify_full call
    entry_prev,     \* prev_nose on entry to the latest call (history)
    velocity,       \* velocity computed by the latest call (squared)
    result,         \* BehaviorResult returned by the latest call
    state_label,    \* string returned by classify_state, as the pair
                    \* <<location, attention>>, when the latest call was
                    \* made through classify_state
    \* RATApp (src/main.py)
    video_path,         \* "" or the video loaded
    output_folder,      \* "" or the folder chosen
    app_arena_bounds,   \* RATApp.arena_bounds
    drawing_mode,       \* "" (None) or "arena"
    start_xy,           \* <<start_x, start_y>> of the latest mouse press
    rect_id,            \* 0 (None) or the id of the canvas rectangle
    is_processing,
    btn_start,          \* state of the Start button, "normal" or "disabled"
    preview_running,
    preview_paused,
    preview_cap,        \* None or <<video, position>>
    timers,             \* number of _preview_loop callbacks pending (after)
    complete_pending,   \* an _on_processing_complete callback is pending
    ui,                 \* the classify_full call the UI thread is inside
    worker,             \* the analysis thread: position, locals, results
    \* Tracker (src/tracker.py)
    keypoint_data,      \* Tracker.keypoint_data: None or the pose table
    tracker_call,       \* arguments and outcome of the latest get_keypoints
    threads,            \* number of _run_analysis threads alive (history)
    \* RATInstaller (src/installer.py)
    installer           \* the installer window and its installation thread

(* Latest-call history of the classifier specification.                    *)
callVars == <<calls, run, keypoints, frame_height, entry_prev, velocity,
              result, state_label>>

appVars == <<video_path, output_folder, app_arena_bounds, drawing_mode,
             start_xy, rect_id, is_processing, btn_start, preview_running,
             preview_paused, preview_cap, timers, complete_pending, ui,
             worker, threads>>

trackerVars == <<keypoint_data, tracker_call>>

(* What no handler of RATApp reads or writes.                              *)
elsewhere == <<callVars, tracker_call, installer>>

vars == <<prev_nose, arena_bounds, callVars, appVars, trackerVars,
          installer>>

----------------------------------------------------------------------------
(* Constants of classifier.py *)

VELOCITY_THRESHOLD == 5

GROOMING_DISTANCE == 50

SNIFFING_WALL_DISTANCE == 30

EAR_SPREAD_THRESHOLD == 20

(* Python's None; a tuple, so that it compares with points and rectangles, *)
(* and falsy like None under "if self.arena_bounds".                       *)
None == << >>

Truthy(t) == t # << >>

----------------------------------------------------------------------------
(* Bounds and input sets of the model *)

MaxCalls == 3

Parts == {"nose", "tail_base", "left_ear", "right_ear"}

(* Rectangles given to set_arena.                                          *)
Arenas ==
    { <<0, 0, 100, 400>>,       \* the arena of the spec's examples
      <<20, 40, 120, 242>>,     \* height 202, not a multiple of 4
      <<0, 100, 100, 100>>,     \* zero height
      <<100, 400, 0, 0>>,       \* inverted
      <<100, 0, 0, 400>> }      \* inverted in x only

(* Nose positions: band boundaries and wall distances of the arenas above, *)
(* the spec's examples, and pairs less than, exactly and more than         *)
(* VELOCITY_THRESHOLD apart.                                               *)
NosePoints ==
    { <<50, 380>>, <<50, 370>>, <<50, 300>>, <<71, 350>>,
      <<5, 200>>, <<50, 200>>, <<100, 100>>, <<103, 104>>,
      <<50, 29>>, <<50, 30>> }

(* Tail positions relative to the nose (tail - nose): head angle 0 and     *)
(* 180 with a long body, and a tail 10 px from the nose.                   *)
TailOffsets == { <<0, 100>>, <<0, -80>>, <<0, 10>> }

(* Tail positions relative to the nose on the cardinal directions, on and  *)
(* next to the bounds of the head-direction cones, and exactly             *)
(* GROOMING_DISTANCE away.                                                 *)
AngleOffsets ==
    { <<-100, 0>>, <<100, 0>>, <<-60, 60>>, <<-60, -60>>, <<60, 60>>,
      <<60, -60>>, <<61, 60>>, <<60, -61>>, <<30, 40>> }

AngleNoses == { <<50, 200>>, <<5, 200>> }

(* Ear positions relative to the nose, <<left - nose, right - nose>>:      *)
(* spread exactly 20 and spread 19.                                        *)
WideEars == << <<-10, 0>>, <<10, 0>> >>

EarOffsets == { WideEars, << <<-10, 0>>, <<9, 0>> >> }

Add(p, d) == <<p[1] + d[1], p[2] + d[2]>>

(* A keypoint mapping is a function from the parts present to points.      *)
Keypoints(n, t, e) ==
    [nose |-> n, tail_base |-> Add(n, t),
     left_ear |-> Add(n, e[1]), right_ear |-> Add(n, e[2])]

Restrict(f, S) == [k \in S |-> f[k]]

FullKeypoints ==
    { Keypoints(n, t, e) : n \in NosePoints, t \in TailOffsets,
                           e \in EarOffsets }
    \cup { Keypoints(n, t, WideEars) : n \in AngleNoses, t \in AngleOffsets }

(* The scenario's mapping with every proper subset of the parts present.   *)
PartialKeypoints ==
    { Restrict(Keypoints(<<50, 380>>, <<0, -80>>, WideEars), S) :
        S \in (SUBSET Parts) \ {Parts} }

KeypointSets == FullKeypoints \cup PartialKeypoints

(* Frame heights given to classify_full: 402 (bands at 100.5, 201, 301.5)  *)
(* with every mapping, 400 (bands at 100, 200, 300, where noses lie) with  *)
(* one mapping per nose.                                                   *)
FrameHeights == {400, 402}

DefaultHeightKeypoints ==
    { Keypoints(n, <<0, 100>>, WideEars) : n \in NosePoints }

Inputs ==
    { in \in KeypointSets \X FrameHeights :
        in[2] # 402 => in[1] \in DefaultHeightKeypoints }

(* Arguments of classify_state: zone_a and zone_b absent or two           *)
(* rectangles, and the default frame height 1080.                          *)
ZonePairs == { <<None, None>>, << <<0, 0, 100, 100>>, <<0, 300, 100, 400>> >> }

StateInputs ==
    { <<kp, z[1], z[2], 1080>> : kp \in DefaultHeightKeypoints,
                                 z \in ZonePairs }

----------------------------------------------------------------------------
(* Geometry *)

(* dict.get(key, default) *)
Get(kp, key, default) == IF key \in DOMAIN kp THEN kp[key] ELSE default

(* _distance: np.sqrt(dx**2 + dy**2), as its square *)
distance(p1, p2) ==
    (p1[1] - p2[1]) * (p1[1] - p2[1]) + (p1[2] - p2[2]) * (p1[2] - p2[2])

(* d < c for a distance d kept as its square *)
Less(d, c) == d < c * c

Abs(n) == IF n < 0 THEN -n ELSE n

(* TanTable[k+1] = floor(10^6 * tan((k + 0.5) / 10 degrees)), k = 0..449 *)
TanScale == 1000000

TanTable == <<
     872, 2617, 4363, 6108, 7854, 9599, 11345, 13090, 14836, 16582,
     18328, 20073, 21820, 23566, 25312, 27059, 28805, 30552, 32299, 34047,
     35794, 37542, 39290, 41038, 42786, 44535, 46284, 48033, 49782, 51532,
     53282, 55033, 56784, 58535, 60286, 62038, 63790, 65543, 67296, 69049,
     70803, 72558, 74312, 76068, 77823, 79579, 81336, 83093, 84851, 86609,
     88368, 90127, 91887, 93647, 95408, 97169, 98931, 100694, 102458, 104222,
     105986, 107751, 109517, 111284, 113051, 114819, 116588, 118357, 120127, 121898,
     123670, 125442, 127216, 128990, 130764, 132540, 134316, 136094, 137872, 139651,
     141430, 143211, 144993, 146775, 148558, 150343, 152128, 153914, 155701, 157490,
     159279, 161069, 162860, 164652, 166445, 168239, 170035, 171831, 173628, 175427,
     177226, 179027, 180829, 182632, 184436, 186241, 188048, 189855, 191664, 193474,
     195286, 197098, 198912, 200727, 202543, 204361, 206180, 208000, 209821, 211644,
     213468, 215294, 217121, 218949, 220779, 222610, 224442, 226276, 228112, 229949,
     231787, 233627, 235468, 237311, 239155, 241001, 242849, 244698, 246549, 248401,
     250255, 252110, 253967, 255826, 257686, 259548, 261412, 263278, 265145, 267014,
     268884, 270757, 272631, 274507, 276384, 278264, 280145, 282029, 283914, 285801,
     287690, 289580, 291473, 293367, 295264, 297162, 299063, 300965, 302870, 304776,
     306685, 308595, 310508, 312422, 314339, 316258, 318179, 320102, 322027, 323955,
     325884, 327816, 329750, 331686, 333625, 335565, 337508, 339454, 341401, 343351,
     345304, 347258, 349215, 351175, 353136, 355100, 357067, 359036, 361008, 362982,
     364958, 366937, 368919, 370903, 372890, 374879, 376871, 378866, 380863, 382863,
     384865, 386870, 388878, 390889, 392902, 394918, 396937, 398959, 400984, 403011,
     405041, 407074, 409110, 411149, 413191, 415236, 417284, 419334, 421388, 423445,
     425505, 427567, 429633, 431702, 433775, 435850, 437928, 440010, 442095, 444183,
     446274, 448369, 450467, 452568, 454672, 456780, 458891, 461006, 463124, 465245,
     467370, 469498, 471630, 473765, 475904, 478047, 480193, 482342, 484495, 486652,
     488813, 490977, 493145, 495317, 497492, 499671, 501854, 504041, 506232, 508426,
     510625, 512827, 515033, 517244, 519458, 521676, 523899, 526125, 528355, 530590,
     532829, 535072, 537319, 539570, 541826, 544086, 546350, 548618, 550891, 553168,
     555450, 557736, 560026, 562321, 564621, 566925, 569233, 571547, 573864, 576187,
     578514, 580846, 583182, 585524, 587870, 590221, 592576, 594937, 597303, 599673,
     602048, 604429, 606814, 609205, 611601, 614001, 616407, 618818, 621235, 623656,
     626083, 628515, 630953, 633395, 635844, 638297, 640756, 643221, 645691, 648167,
     650648, 653136, 655628, 658127, 660631, 663141, 665657, 668178, 670706, 673239,
     675778, 678324, 680875, 683433, 685996, 688566, 691142, 693724, 696313, 698907,
     701508, 704116, 706730, 709350, 711977, 714610, 717250, 719896, 722550, 725210,
     727876, 730550, 733230, 735917, 738611, 741312, 744020, 746735, 749457, 752186,
     754923, 757666, 760417, 763175, 765941, 768714, 771494, 774282, 777078, 779881,
     782691, 785510, 788336, 791170, 794012, 796861, 799719, 802584, 805458, 808340,
     811229, 814127, 817034, 819948, 822871, 825803, 828742, 831691, 834648, 837613,
     840587, 843570, 846562, 849563, 852572, 855591, 858618, 861655, 864700, 867755,
     870820, 873893, 876976, 880068, 883170, 886282, 889403, 892534, 895674, 898825,
     901985, 905155, 908336, 911526, 914727, 917937, 921158, 924390, 927632, 930884,
     934147, 937421, 940706, 944001, 947307, 950624, 953952, 957291, 960642, 964003,
     967376, 970761, 974156, 977564, 980983, 984414, 987856, 991311, 994777, 998256
>>

(* Least k in lo..hi with a/b < tan((k + 0.5)/10 degrees), hi if none:     *)
(* atan(a/b) in tenths of a degree, rounded, for 0 <= a <= b, b > 0.       *)
RECURSIVE OctantSearch(_, _, _, _)
OctantSearch(a, b, lo, hi) ==
    IF lo >= hi THEN lo
    ELSE LET m == (lo + hi) \div 2
         IN  IF a * TanScale <= TanTable[m + 1] * b
             THEN OctantSearch(a, b, lo, m)
             ELSE OctantSearch(a, b, m + 1, hi)

(* atan2(a, b) in tenths of a degree for a >= 0, b >= 0, not both 0 *)
QuadrantAngle(a, b) ==
    IF a <= b THEN OctantSearch(a, b, 0, 450)
    ELSE 900 - OctantSearch(b, a, 0, 450)

(* round(np.degrees(np.arctan2(dx, dy)), 1) in tenths of a degree; the     *)
(* result is in -1799..1800 and arctan2(0, 0) = 0.                         *)
ArcTan2Deg(dx, dy) ==
    IF dx = 0 /\ dy = 0 THEN 0
    ELSE IF dx >= 0 /\ dy >= 0 THEN QuadrantAngle(dx, dy)
    ELSE IF dx >= 0 THEN 1800 - QuadrantAngle(dx, -dy)
    ELSE IF dy >= 0 THEN -QuadrantAngle(-dx, dy)
    ELSE -(1800 - QuadrantAngle(-dx, -dy))

(* Mutant: the y difference is not inverted.                               *)
calculate_head_angle_noflip(nose, tail) ==
    LET dx == nose[1] - tail[1]
        dy == nose[2] - tail[2]
    IN  ArcTan2Deg(dx, dy)

(* _calculate_head_angle *)
calculate_head_angle(nose, tail) ==
    LET dx == nose[1] - tail[1]
        dy == tail[2] - nose[2]
    IN  ArcTan2Deg(dx, dy)

----------------------------------------------------------------------------
(* Velocity tracker *)

(* Mutant: the first call measures its distance from the origin.           *)
calculate_velocity_origin(prev, current_nose) ==
    IF prev = None
    THEN [velocity |-> distance(current_nose, <<0, 0>>),
          prev_nose |-> current_nose]
    ELSE [velocity |-> distance(current_nose, prev),
          prev_nose |-> current_nose]

(* Mutant: later calls do not overwrite the stored position.               *)
calculate_velocity_stale(prev, current_nose) ==
    IF prev = None
    THEN [velocity |-> 0, prev_nose |-> current_nose]
    ELSE [velocity |-> distance(current_nose, prev), prev_nose |-> prev]

(* _calculate_velocity: the velocity returned and the prev_nose stored *)
calculate_velocity(prev, current_nose) ==
    IF prev = None
    THEN [velocity |-> 0, prev_nose |-> current_nose]
    ELSE [velocity |-> distance(current_nose, prev),
          prev_nose |-> current_nose]

----------------------------------------------------------------------------
(* Zone resolver *)

(* Mutant: a nose above the arena top is not caught first.                 *)
get_location_from_arena_noabove(arena, nose) ==
    IF ~Truthy(arena) THEN "Unknown"
    ELSE LET y1 == arena[2]
             y2 == arena[4]
             arena_height == y2 - y1
             relative_y == nose[2] - y1
         IN  IF 4 * relative_y < arena_height THEN "Top Stimulus"
             ELSE IF 4 * relative_y < arena_height * 2 THEN "Adj to Top"
             ELSE IF 4 * relative_y < arena_height * 3 THEN "Adj to Bottom"
             ELSE "Bottom Stimulus"

(* Mutant: band boundaries belong to the upper band.                       *)
get_location_from_arena_le(arena, nose) ==
    IF ~Truthy(arena) THEN "Unknown"
    ELSE LET y1 == arena[2]
             y2 == arena[4]
             arena_height == y2 - y1
             relative_y == nose[2] - y1
         IN  IF relative_y < 0 THEN "Top Stimulus"
             ELSE IF 4 * relative_y <= arena_height THEN "Top Stimulus"
             ELSE IF 4 * relative_y <= arena_height * 2 THEN "Adj to Top"
             ELSE IF 4 * relative_y <= arena_height * 3 THEN "Adj to Bottom"
             ELSE "Bottom Stimulus"

get_location_from_arena(arena, nose) ==
    IF ~Truthy(arena) THEN "Unknown"
    ELSE LET y1 == arena[2]
             y2 == arena[4]
             arena_height == y2 - y1
             relative_y == nose[2] - y1
         IN  IF relative_y < 0 THEN "Top Stimulus"
             ELSE IF 4 * relative_y < arena_height THEN "Top Stimulus"
             ELSE IF 4 * relative_y < arena_height * 2 THEN "Adj to Top"
             ELSE IF 4 * relative_y < arena_height * 3 THEN "Adj to Bottom"
             ELSE "Bottom Stimulus"

(* Mutant: the zone height is an integer division.                         *)
get_location_from_frame_intdiv(nose, fh) ==
    LET zone_height == fh \div 4
        nose_y == nose[2]
    IN  IF nose_y < zone_height THEN "Top Stimulus"
        ELSE IF nose_y < zone_height * 2 THEN "Adj to Top"
        ELSE IF nose_y < zone_height * 3 THEN "Adj to Bottom"
        ELSE "Bottom Stimulus"

get_location_from_frame(nose, fh) ==
    LET nose_y == nose[2]
    IN  IF 4 * nose_y < fh THEN "Top Stimulus"
        ELSE IF 4 * nose_y < fh * 2 THEN "Adj to Top"
        ELSE IF 4 * nose_y < fh * 3 THEN "Adj to Bottom"
        ELSE "Bottom Stimulus"

----------------------------------------------------------------------------
(* Attention resolver *)

(* Mutant: the ear-spread rule does not test the velocity.                 *)
is_grooming_ears_any_speed(nose_tail_dist, v, left_ear, right_ear) ==
    IF Less(nose_tail_dist, GROOMING_DISTANCE) /\ Less(v, VELOCITY_THRESHOLD)
    THEN TRUE
    ELSE LET ear_spread == distance(left_ear, right_ear)
         IN  IF Less(ear_spread, EAR_SPREAD_THRESHOLD)
             THEN TRUE
             ELSE FALSE

(* Mutant: the ear spread is not looked at.                                *)
is_grooming_no_ears(nose_tail_dist, v, left_ear, right_ear) ==
    IF Less(nose_tail_dist, GROOMING_DISTANCE) /\ Less(v, VELOCITY_THRESHOLD)
    THEN TRUE
    ELSE FALSE

is_grooming(nose_tail_dist, v, left_ear, right_ear) ==
    IF Less(nose_tail_dist, GROOMING_DISTANCE) /\ Less(v, VELOCITY_THRESHOLD)
    THEN TRUE
    ELSE LET ear_spread == distance(left_ear, right_ear)
         IN  IF Less(ear_spread, EAR_SPREAD_THRESHOLD)
                /\ Less(v, VELOCITY_THRESHOLD)
             THEN TRUE
             ELSE FALSE

(* Mutant: the top check forgets the left and right walls.                 *)
is_near_arena_edge_toponly(arena, nose, edge) ==
    IF ~Truthy(arena) THEN TRUE
    ELSE LET x1 == arena[1]
             y1 == arena[2]
             x2 == arena[3]
             y2 == arena[4]
             near_left == Abs(nose[1] - x1) < SNIFFING_WALL_DISTANCE
             near_right == Abs(nose[1] - x2) < SNIFFING_WALL_DISTANCE
         IN  IF edge = "top"
             THEN Abs(nose[2] - y1) < SNIFFING_WALL_DISTANCE
             ELSE Abs(nose[2] - y2) < SNIFFING_WALL_DISTANCE
                  \/ near_left \/ near_right

(* Mutant: the bottom check measures the distance to the top edge.         *)
is_near_arena_edge_y1(arena, nose, edge) ==
    IF ~Truthy(arena) THEN TRUE
    ELSE LET x1 == arena[1]
             y1 == arena[2]
             x2 == arena[3]
             y2 == arena[4]
             near_left == Abs(nose[1] - x1) < SNIFFING_WALL_DISTANCE
             near_right == Abs(nose[1] - x2) < SNIFFING_WALL_DISTANCE
         IN  IF edge = "top"
             THEN Abs(nose[2] - y1) < SNIFFING_WALL_DISTANCE
                  \/ near_left \/ near_right
             ELSE Abs(nose[2] - y1) < SNIFFING_WALL_DISTANCE
                  \/ near_left \/ near_right

is_near_arena_edge(arena, nose, edge) ==
    IF ~Truthy(arena) THEN TRUE
    ELSE LET x1 == arena[1]
             y1 == arena[2]
             x2 == arena[3]
             y2 == arena[4]
             near_left == Abs(nose[1] - x1) < SNIFFING_WALL_DISTANCE
             near_right == Abs(nose[1] - x2) < SNIFFING_WALL_DISTANCE
         IN  IF edge = "top"
             THEN Abs(nose[2] - y1) < SNIFFING_WALL_DISTANCE
                  \/ near_left \/ near_right
             ELSE Abs(nose[2] - y2) < SNIFFING_WALL_DISTANCE
                  \/ near_left \/ near_right

(* Mutant: the bounds of the Head Top cone are exclusive.                  *)
get_head_direction_strict(arena, head_angle, nose) ==
    IF Truthy(arena)
       /\ (Abs(nose[1] - arena[1]) < SNIFFING_WALL_DISTANCE
           \/ Abs(nose[1] - arena[3]) < SNIFFING_WALL_DISTANCE)
    THEN "Head Middle/Nothing"
    ELSE IF -450 < head_angle /\ head_angle < 450 THEN "Head Top"
    ELSE IF head_angle > 1350 \/ head_angle < -1350 THEN "Head Bottom"
    ELSE "Head Middle/Nothing"

(* Mutant: only the left wall overrides the head angle.                    *)
get_head_direction_left(arena, head_angle, nose) ==
    IF Truthy(arena)
       /\ Abs(nose[1] - arena[1]) < SNIFFING_WALL_DISTANCE
    THEN "Head Middle/Nothing"
    ELSE IF -450 <= head_angle /\ head_angle <= 450 THEN "Head Top"
    ELSE IF head_angle > 1350 \/ head_angle < -1350 THEN "Head Bottom"
    ELSE "Head Middle/Nothing"

get_head_direction(arena, head_angle, nose) ==
    IF Truthy(arena)
       /\ (Abs(nose[1] - arena[1]) < SNIFFING_WALL_DISTANCE
           \/ Abs(nose[1] - arena[3]) < SNIFFING_WALL_DISTANCE)
    THEN "Head Middle/Nothing"
    ELSE IF -450 <= head_angle /\ head_angle <= 450 THEN "Head Top"
    ELSE IF head_angle > 1350 \/ head_angle < -1350 THEN "Head Bottom"
    ELSE "Head Middle/Nothing"

(* Mutant: the zone rules are tried before the grooming rule.              *)
get_attention_zone_first(arena, nose, tail, left_ear, right_ear, v, nose_tail_dist, head_angle, location) ==
    IF location = "Top Stimulus" /\ Less(v, VELOCITY_THRESHOLD)
       /\ is_near_arena_edge(arena, nose, "top")
    THEN "Sniffing Top"
    ELSE IF location = "Bottom Stimulus" /\ Less(v, VELOCITY_THRESHOLD)
            /\ is_near_arena_edge(arena, nose, "bottom")
    THEN "Sniffing Bottom"
    ELSE IF is_grooming(nose_tail_dist, v, left_ear, right_ear)
    THEN "Grooming"
    ELSE get_head_direction(arena, head_angle, nose)

get_attention(arena, nose, tail, left_ear, right_ear, v, nose_tail_dist, head_angle, location) ==
    IF is_grooming(nose_tail_dist, v, left_ear, right_ear)
    THEN "Grooming"
    ELSE IF location = "Top Stimulus" /\ Less(v, VELOCITY_THRESHOLD)
            /\ is_near_arena_edge(arena, nose, "top")
    THEN "Sniffing Top"
    ELSE IF location = "Bottom Stimulus" /\ Less(v, VELOCITY_THRESHOLD)
            /\ is_near_arena_edge(arena, nose, "bottom")
    THEN "Sniffing Bottom"
    ELSE get_head_direction(arena, head_angle, nose)

----------------------------------------------------------------------------
(* Classifier facade *)

(* Mutant: a missing ear defaults to the origin.                           *)
BehaviorResult_ear_origin(arena, kp, fh, v) ==
    LET nose == Get(kp, "nose", <<0, 0>>)
        tail == Get(kp, "tail_base", <<0, 0>>)
        left_ear == Get(kp, "left_ear", <<0, 0>>)
        right_ear == Get(kp, "right_ear", <<0, 0>>)
        nose_tail_dist == distance(nose, tail)
        head_angle == calculate_head_angle(nose, tail)
        location == IF Truthy(arena)
                    THEN get_location_from_arena(arena, nose)
                    ELSE get_location_from_frame(nose, fh)
        attention == get_attention(arena, nose, tail, left_ear, right_ear,
                                   v, nose_tail_dist, head_angle, location)
    IN  [location |-> location, attention |-> attention,
         head_angle |-> head_angle]

(* Mutant: the arena resolver is called whether or not an arena is set.    *)
BehaviorResult_always_arena(arena, kp, fh, v) ==
    LET nose == Get(kp, "nose", <<0, 0>>)
        tail == Get(kp, "tail_base", <<0, 0>>)
        left_ear == Get(kp, "left_ear", nose)
        right_ear == Get(kp, "right_ear", nose)
        nose_tail_dist == distance(nose, tail)
        head_angle == calculate_head_angle(nose, tail)
        location == get_location_from_arena(arena, nose)
        attention == get_attention(arena, nose, tail, left_ear, right_ear,
                                   v, nose_tail_dist, head_angle, location)
    IN  [location |-> location, attention |-> attention,
         head_angle |-> head_angle]

(* The BehaviorResult of classify_full for the velocity v already taken    *)
(* from the velocity tracker.                                              *)
BehaviorResult(arena, kp, fh, v) ==
    LET nose == Get(kp, "nose", <<0, 0>>)
        tail == Get(kp, "tail_base", <<0, 0>>)
        left_ear == Get(kp, "left_ear", nose)
        right_ear == Get(kp, "right_ear", nose)
        nose_tail_dist == distance(nose, tail)
        head_angle == calculate_head_angle(nose, tail)
        location == IF Truthy(arena)
                    THEN get_location_from_arena(arena, nose)
                    ELSE get_location_from_frame(nose, fh)
        attention == get_attention(arena, nose, tail, left_ear, right_ear,
                                   v, nose_tail_dist, head_angle, location)
    IN  [location |-> location, attention |-> attention,
         head_angle |-> head_angle]

(* get_orientation_angle: reads no field and changes none *)
get_orientation_angle(kp) ==
    LET nose == Get(kp, "nose", <<0, 0>>)
        tail == Get(kp, "tail_base", <<0, 0>>)
    IN  calculate_head_angle(nose, tail)

NoResult == [location |-> "", attention |-> "", head_angle |-> 0]

NoLabel == <<"", "">>

UiIdle == [pc |-> "idle", kp |-> << >>, prev |-> None, from |-> ""]

WorkerNone ==
    [pc |-> "none", video |-> "", frame_idx |-> 0, kp |-> << >>,
     prev |-> None, velocity |-> 0, location |-> "", results |-> << >>,
     log |-> << >>]

(* RATApp.__init__ *)
AppInit ==
    /\ video_path = ""
    /\ output_folder = ""
    /\ app_arena_bounds = None
    /\ drawing_mode = ""
    /\ start_xy = <<0, 0>>
    /\ rect_id = 0
    /\ is_processing = FALSE
    /\ btn_start = "disabled"
    /\ preview_running = FALSE
    /\ preview_paused = FALSE
    /\ preview_cap = None
    /\ timers = 0
    /\ complete_pending = FALSE
    /\ ui = UiIdle
    /\ worker = WorkerNone
    /\ threads = 0

NoCall == [frame |-> << >>, frame_idx |-> None, out |-> << >>]

(* Tracker.__init__ *)
TrackerInit ==
    /\ keypoint_data = None
    /\ tracker_call = NoCall

(* RATInstaller.__init__: pc is the step the installation thread is at    *)
(* (0 without thread), sub its position in the loops of step 3; ran is     *)
(* the history of the steps of the latest run, reached the completion      *)
(* callback that has run for it; conda_path is kept as found or not.       *)
InstallerInit ==
    [is_installing |-> FALSE, btn_install |-> "normal",
     conda_path |-> FALSE, checked |-> FALSE, threads |-> 0, pc |-> 0,
     sub |-> 0, failed_critical |-> {}, ran |-> << >>, pending |-> << >>,
     reached |-> ""]

Init ==
    /\ AppInit
    /\ TrackerInit
    /\ installer = InstallerInit
    /\ prev_nose = None
    /\ arena_bounds = None
    /\ calls = 0
    /\ run = 0
    /\ keypoints = [k \in {} |-> <<0, 0>>]
    /\ frame_height = 0
    /\ entry_prev = None
    /\ velocity = 0
    /\ result = NoResult
    /\ state_label = NoLabel

set_arena(bounds) ==
    /\ arena_bounds' = bounds
    /\ run' = IF bounds = arena_bounds THEN run ELSE 0
    /\ UNCHANGED <<prev_nose, calls, keypoints, frame_height, entry_prev,
                   velocity, result, state_label>>
    /\ UNCHANGED <<appVars, trackerVars, installer>>

(* Mutant: the velocity is taken against the nose of two calls back.       *)
ClassifyCall_history(kp, fh) ==
    /\ calls < MaxCalls
    /\ LET nose == Get(kp, "nose", <<0, 0>>)
           vel == calculate_velocity(entry_prev, nose)
       IN  /\ prev_nose' = vel.prev_nose
           /\ velocity' = vel.velocity
           /\ result' = BehaviorResult(arena_bounds, kp, fh, vel.velocity)
    /\ entry_prev' = prev_nose
    /\ keypoints' = kp
    /\ frame_height' = fh
    /\ calls' = calls + 1
    /\ run' = IF run > 0 /\ kp = keypoints /\ fh = frame_height
              THEN run + 1 ELSE 1
    /\ UNCHANGED <<arena_bounds, appVars, trackerVars, installer>>

(* The body of classify_full, shared with classify_state.                  *)
ClassifyCall(kp, fh) ==
    /\ calls < MaxCalls
    /\ LET nose == Get(kp, "nose", <<0, 0>>)
           vel == calculate_velocity(prev_nose, nose)
       IN  /\ prev_nose' = vel.prev_nose
           /\ velocity' = vel.velocity
           /\ result' = BehaviorResult(arena_bounds, kp, fh, vel.velocity)
    /\ entry_prev' = prev_nose
    /\ keypoints' = kp
    /\ frame_height' = fh
    /\ calls' = calls + 1
    /\ run' = IF run > 0 /\ kp = keypoints /\ fh = frame_height
              THEN run + 1 ELSE 1
    /\ UNCHANGED <<arena_bounds, appVars, trackerVars, installer>>

classify_full(kp, fh) ==
    /\ ClassifyCall(kp, fh)
    /\ state_label' = NoLabel

(* classify_state: classify_full, then f"{location} | {attention}"; the    *)
(* two zone arguments are not read.                                        *)
classify_state(kp, zone_a, zone_b, fh) ==
    /\ ClassifyCall(kp, fh)
    /\ state_label' = <<result'.location, result'.attention>>

Next ==
    \/ \E b \in Arenas : set_arena(b)
    \/ \E in \in Inputs : classify_full(in[1], in[2])
    \/ \E in \in StateInputs : classify_state(in[1], in[2], in[3], in[4])

Spec == Init /\ [][Next]_vars

----------------------------------------------------------------------------
(* The keypoint source, src/tracker.py.  Coordinates of the pose data are  *)
(* floats, kept in tenths of a pixel; a likelihood is kept in hundredths.  *)
(* The 'confidence' entry that the returned dict also carries is left out. *)

KEYPOINT_NAMES == <<"nose", "left_ear", "right_ear", "tail_base">>

CONFIDENCE_THRESHOLD == 30

(* alt_names of _get_keypoints_from_data, in the order they are tried *)
AltNames ==
    [nose |-> <<"snout", "nose_tip">>,
     tail_base |-> <<"tailbase", "tail_base", "tail">>,
     left_ear |-> <<"leftear", "left_ear", "ear_left">>,
     right_ear |-> <<"rightear", "right_ear", "ear_right">>]

(* frame.shape[:2] of the frames passed to get_keypoints: (rows, columns)  *)
Frames == { <<600, 800>>, <<401, 641>> }

(* (frame.shape[1]//2, frame.shape[0]//2) *)
FrameCentre(frame) == <<frame[2] \div 2, frame[1] \div 2>>

(* int(x) of a float given in tenths: truncation towards zero *)
IntOf(t) == IF t >= 0 THEN t \div 10 ELSE -((-t) \div 10)

(* One cell group of a row: x, y (tenths; nan marks a NaN x) and the       *)
(* likelihood (hundredths).                                                *)
Cell(x, y, conf, nan) == [x |-> x, y |-> y, conf |-> conf, nan |-> nan]

(* Rows of pose data over the body-part columns cols.                      *)
RowConfident(cols) == [c \in cols |-> Cell(1237, -5, 90, FALSE)]

RowThreshold(cols) == [c \in cols |-> Cell(2009, 3001, 30, FALSE)]

RowLowNose(cols) ==
    [c \in cols |-> IF c \in {"nose", "snout"}
                    THEN Cell(1237, 995, 29, FALSE)
                    ELSE Cell(3000, 2000, 90, FALSE)]

RowNanEar(cols) ==
    [c \in cols |-> IF c \in {"left_ear", "leftear"}
                    THEN Cell(0, 2000, 90, TRUE)
                    ELSE Cell(3000, 2000, 29, FALSE)]

RowNanLowEar(cols) ==
    [c \in cols |-> IF c \in {"left_ear", "leftear"}
                    THEN Cell(0, 2000, 10, TRUE)
                    ELSE Cell(3000, 2000, 90, FALSE)]

(* Body-part column sets of the pose files: the exact names, alternative   *)
(* names, files without ears, without nose, and without any known part.    *)
ColumnSets ==
    { {"nose", "left_ear", "right_ear", "tail_base"},
      {"snout", "leftear", "rightear", "tailbase"},
      {"nose", "tail_base"},
      {"left_ear", "right_ear", "tail"},
      {"neck"} }

MaxRows == 2

RowsOver(cols) ==
    { RowConfident(cols), RowThreshold(cols), RowLowNose(cols),
      RowNanEar(cols), RowNanLowEar(cols) }

(* Values pd.read_hdf can give keypoint_data: the columns and up to        *)
(* MaxRows rows of one kind.                                               *)
PoseData ==
    UNION { { [parts |-> cols, rows |-> [i \in 1..n |-> r]] :
                n \in 0..MaxRows, r \in RowsOver(cols) } :
            cols \in ColumnSets }

(* Frame indices passed to get_keypoints, each as a 1-tuple; None when     *)
(* the argument is left at its default.                                    *)
FrameIndices == {None} \cup { <<i>> : i \in -1..MaxRows }

(* The column read for a keypoint name: the exact name, else the first     *)
(* alternative present, else "" (not found).                               *)
ResolvePart(data, name) ==
    IF name \in data.parts THEN name
    ELSE LET alts == AltNames[name]
             hits == { i \in 1..Len(alts) : alts[i] \in data.parts }
         IN  IF hits = {} THEN ""
             ELSE alts[CHOOSE i \in hits : \A j \in hits : i <= j]

(* x, y, conf of the loop body before the threshold test *)
PartCoords(data, row, name, frame) ==
    LET col == ResolvePart(data, name)
    IN  IF col = ""
        THEN Cell(FrameCentre(frame)[1] * 10, FrameCentre(frame)[2] * 10,
                  0, FALSE)
        ELSE row[col]

(* int(x) of a NaN raises ValueError *)
PartRaises(data, row, name, frame) ==
    LET c == PartCoords(data, row, name, frame)
    IN  c.conf >= CONFIDENCE_THRESHOLD /\ c.nan

(* Mutant: a part below the threshold keeps its own coordinates.           *)
PartEntry_nothreshold(data, row, name, frame) ==
    LET c == PartCoords(data, row, name, frame)
    IN  <<IntOf(c.x), IntOf(c.y)>>

(* result[name] *)
PartEntry(data, row, name, frame) ==
    LET c == PartCoords(data, row, name, frame)
    IN  IF c.conf >= CONFIDENCE_THRESHOLD
        THEN <<IntOf(c.x), IntOf(c.y)>>
        ELSE FrameCentre(frame)

(* Sample of the points random.randint gives _dummy_keypoints: the centre  *)
(* and the two corners of its range, spread = min(w, h) // 4.              *)
DummyPoints(frame) ==
    LET c == FrameCentre(frame)
        spread == (IF frame[2] <= frame[1] THEN frame[2] ELSE frame[1])
                     \div 4
    IN  { <<c[1] - spread, c[2] - spread>>, c,
          <<c[1] + spread, c[2] + spread>> }

(* Outcomes of _dummy_keypoints(frame) *)
dummy_keypoints(frame) ==
    { [src |-> "demo", kp |-> kp] :
        kp \in [{"nose", "left_ear", "right_ear", "tail_base"}
                  -> DummyPoints(frame)] }

(* Outcomes of _get_keypoints_from_data(frame_idx, frame): the demo        *)
(* keypoints past the end of the data and on any exception (an iloc index  *)
(* out of range, a NaN coordinate), else the parsed row.                   *)
get_keypoints_from_data(data, frame_idx, frame) ==
    LET n == Len(data.rows)
    IN  IF frame_idx >= n THEN dummy_keypoints(frame)
        ELSE IF frame_idx < -n THEN dummy_keypoints(frame)
        ELSE LET row == data.rows[IF frame_idx >= 0 THEN frame_idx + 1
                                  ELSE n + frame_idx + 1]
             IN  IF \E i \in 1..Len(KEYPOINT_NAMES) :
                        PartRaises(data, row, KEYPOINT_NAMES[i], frame)
                 THEN dummy_keypoints(frame)
                 ELSE { [src |-> "data",
                         kp |-> [name \in {"nose", "left_ear", "right_ear",
                                           "tail_base"}
                                   |-> PartEntry(data, row, name, frame)]] }

(* Outcomes of Tracker.get_keypoints(frame, frame_idx) *)
get_keypoints_outcomes(data, frame, frame_idx) ==
    IF data # None /\ frame_idx # None
    THEN get_keypoints_from_data(data, frame_idx[1], frame)
    ELSE dummy_keypoints(frame)

(* analyze_video: not initialized, an exception of the inference or of     *)
(* read_hdf, or no pose file found leave keypoint_data as it is; else it   *)
(* is the table read.                                                      *)
analyze_video(ok, data) ==
    /\ keypoint_data' = IF ok THEN data ELSE keypoint_data
    /\ tracker_call' = NoCall
    /\ UNCHANGED <<prev_nose, arena_bounds, callVars, appVars, installer>>

get_keypoints(frame, frame_idx) ==
    /\ \E out \in get_keypoints_outcomes(keypoint_data, frame, frame_idx) :
          tracker_call' = [frame |-> frame, frame_idx |-> frame_idx,
                           out |-> out]
    /\ UNCHANGED <<keypoint_data, prev_nose, arena_bounds, callVars,
                   appVars, installer>>

NextTracker ==
    \/ \E ok \in BOOLEAN, data \in PoseData : analyze_video(ok, data)
    \/ \E frame \in Frames, idx \in FrameIndices : get_keypoints(frame, idx)

SpecTracker == Init /\ [][NextTracker]_vars

----------------------------------------------------------------------------
(* The application, src/main.py: one RATApp with its Tracker and its one   *)
(* BehaviorClassifier.  The handlers of the UI thread run one at a time;   *)
(* the analysis thread started by start_processing runs beside them.  A    *)
(* classify_full call is not atomic across the two threads: the read of    *)
(* prev_nose, its write and the reads of arena_bounds are separate steps   *)
(* of the analysis thread, and the UI thread's call is split at the read   *)
(* of prev_nose.  Labels, the progress bar and the canvas are left out.    *)
(* In this specification the latest-call history (callVars) is not kept.   *)

MaxFrames == 2

MaxTimers == 2

Videos == {"a.mp4", "b.mp4"}

(* Number of frames cap.read() delivers before it returns ret = False.     *)
FrameCount(v) == IF v = "a.mp4" THEN MaxFrames ELSE 1

(* frame.shape[0] of the videos, whose frames are 800 x 600.               *)
VideoHeight == 600

(* Outcomes of Tracker._dummy_keypoints for such a frame: every part is    *)
(* drawn within 150 px of the centre (400, 300).                           *)
AppKeypoints ==
    { Keypoints(<<300, 200>>, <<0, 100>>, WideEars),
      Keypoints(<<300, 400>>, <<0, -100>>, WideEars) }

(* The frame_idx argument of the two get_keypoints(frame) calls of         *)
(* RATApp: left at its default.                                            *)
AppFrameIdx == None

(* What get_keypoints returns to RATApp for a frame of the video.          *)
TrackerKeypoints ==
    IF keypoint_data # None /\ AppFrameIdx # None
    THEN { out.kp : out \in get_keypoints_from_data(keypoint_data,
                               AppFrameIdx[1], <<VideoHeight, 800>>) }
    ELSE AppKeypoints

(* _display_frame on the 800 x 600 canvas: scale 1, offsets 0.             *)
image_scale == 1

image_offset_x == 0

image_offset_y == 0

(* Canvas positions of the mouse press and of the releases.                *)
MouseDownPoints == { <<200, 100>> }

MouseUpPoints == { <<600, 500>>, <<220, 140>> }

Min(a, b) == IF a <= b THEN a ELSE b

Max(a, b) == IF a >= b THEN a ELSE b

(* The rectangle on_mouse_up computes from the press and the release.      *)
DrawnArena(start, end) ==
    LET x1 == (start[1] - image_offset_x) \div image_scale
        y1 == (start[2] - image_offset_y) \div image_scale
        x2 == (end[1] - image_offset_x) \div image_scale
        y2 == (end[2] - image_offset_y) \div image_scale
    IN  <<Min(x1, x2), Min(y1, y2), Max(x1, x2), Max(y1, y2)>>

(* _check_ready: the state it gives the Start button *)
check_ready(arena, video, folder) ==
    IF Truthy(arena) /\ video # "" /\ folder # ""
    THEN "normal" ELSE "disabled"

UiReady == ui.pc = "idle"

(* Mutant: loading a video runs the pose analysis on it.                   *)
load_video_analyze(v) ==
    /\ UiReady
    /\ video_path' = v
    /\ btn_start' = check_ready(app_arena_bounds, v, output_folder)
    /\ \E data \in PoseData : keypoint_data' = data
    /\ UNCHANGED <<prev_nose, arena_bounds, elsewhere, threads,
                   output_folder, app_arena_bounds, drawing_mode, start_xy,
                   rect_id, is_processing, preview_running, preview_paused,
                   preview_cap, timers, complete_pending, ui, worker>>

load_video(v) ==
    /\ UiReady
    /\ video_path' = v
    /\ btn_start' = check_ready(app_arena_bounds, v, output_folder)
    /\ UNCHANGED <<prev_nose, arena_bounds, elsewhere, keypoint_data,
                   threads, output_folder, app_arena_bounds, drawing_mode,
                   start_xy, rect_id, is_processing, preview_running,
                   preview_paused, preview_cap, timers, complete_pending,
                   ui, worker>>

set_output_folder ==
    /\ UiReady
    /\ output_folder' = "out"
    /\ btn_start' = check_ready(app_arena_bounds, video_path, "out")
    /\ UNCHANGED <<prev_nose, arena_bounds, elsewhere, keypoint_data,
                   threads, video_path, app_arena_bounds, drawing_mode,
                   start_xy, rect_id, is_processing, preview_running,
                   preview_paused, preview_cap, timers, complete_pending,
                   ui, worker>>

start_drawing_arena ==
    /\ UiReady
    /\ video_path # ""
    /\ drawing_mode' = "arena"
    /\ UNCHANGED <<prev_nose, arena_bounds, elsewhere, keypoint_data,
                   threads, video_path, output_folder, app_arena_bounds,
                   start_xy, rect_id, is_processing, btn_start,
                   preview_running, preview_paused, preview_cap, timers,
                   complete_pending, ui, worker>>

on_mouse_down(p) ==
    /\ UiReady
    /\ drawing_mode # ""
    /\ start_xy' = p
    /\ rect_id' = 1
    /\ UNCHANGED <<prev_nose, arena_bounds, elsewhere, keypoint_data,
                   threads, video_path, output_folder, app_arena_bounds,
                   drawing_mode, is_processing, btn_start, preview_running,
                   preview_paused, preview_cap, timers, complete_pending,
                   ui, worker>>

(* on_mouse_up: sets RATApp.arena_bounds, calls classifier.set_arena and   *)
(* _check_ready.                                                           *)
on_mouse_up(p) ==
    /\ UiReady
    /\ drawing_mode # ""
    /\ rect_id # 0
    /\ LET bounds == DrawnArena(start_xy, p)
       IN  /\ app_arena_bounds' = bounds
           /\ arena_bounds' = bounds
           /\ btn_start' = check_ready(bounds, video_path, output_folder)
    /\ drawing_mode' = ""
    /\ UNCHANGED <<prev_nose, elsewhere, keypoint_data, threads, video_path,
                   output_folder, start_xy, rect_id, is_processing,
                   preview_running, preview_paused, preview_cap, timers,
                   complete_pending, ui, worker>>

(* Mutant: a new analysis starts with the previous nose cleared.           *)
start_processing_reset ==
    /\ UiReady
    /\ btn_start = "normal"
    /\ ~is_processing
    /\ is_processing' = TRUE
    /\ btn_start' = "disabled"
    /\ worker' = [WorkerNone EXCEPT !.pc = "open"]
    /\ threads' = threads + 1
    /\ prev_nose' = None
    /\ UNCHANGED <<arena_bounds, elsewhere, keypoint_data, video_path,
                   output_folder, app_arena_bounds, drawing_mode, start_xy,
                   rect_id, preview_running, preview_paused, preview_cap,
                   timers, complete_pending, ui>>

(* Mutant: is_processing is not tested.                                    *)
start_processing_noguard ==
    /\ UiReady
    /\ btn_start = "normal"
    /\ is_processing' = TRUE
    /\ btn_start' = "disabled"
    /\ worker' = [WorkerNone EXCEPT !.pc = "open"]
    /\ threads' = threads + 1
    /\ UNCHANGED <<prev_nose, arena_bounds, elsewhere, keypoint_data,
                   video_path, output_folder, app_arena_bounds,
                   drawing_mode, start_xy, rect_id, preview_running,
                   preview_paused, preview_cap, timers, complete_pending,
                   ui>>

(* start_processing, reached by a click on the enabled Start button *)
start_processing ==
    /\ UiReady
    /\ btn_start = "normal"
    /\ ~is_processing
    /\ is_processing' = TRUE
    /\ btn_start' = "disabled"
    /\ worker' = [WorkerNone EXCEPT !.pc = "open"]
    /\ threads' = threads + 1
    /\ UNCHANGED <<prev_nose, arena_bounds, elsewhere, keypoint_data,
                   video_path, output_folder, app_arena_bounds,
                   drawing_mode, start_xy, rect_id, preview_running,
                   preview_paused, preview_cap, timers, complete_pending,
                   ui>>

on_processing_complete ==
    /\ UiReady
    /\ complete_pending
    /\ complete_pending' = FALSE
    /\ is_processing' = FALSE
    /\ btn_start' = "normal"
    /\ UNCHANGED <<prev_nose, arena_bounds, elsewhere, keypoint_data,
                   threads, video_path, output_folder, app_arena_bounds,
                   drawing_mode, start_xy, rect_id, preview_running,
                   preview_paused, preview_cap, timers, ui, worker>>

(* cap.read() of the preview with the loop back to frame 0 at the end of   *)
(* the video: whether a frame was read, and the capture afterwards.        *)
PreviewRead(cap) ==
    IF cap[2] < FrameCount(cap[1])
    THEN [ret |-> TRUE, cap |-> <<cap[1], cap[2] + 1>>]
    ELSE IF 0 < FrameCount(cap[1])
         THEN [ret |-> TRUE, cap |-> <<cap[1], 1>>]
         ELSE [ret |-> FALSE, cap |-> <<cap[1], 0>>]

(* The UI thread enters classify_full in _display_preview_frame: it has    *)
(* the keypoints of the tracker and reads prev_nose.                       *)
UiClassify(kp, from) ==
    [pc |-> "classify", kp |-> kp, prev |-> prev_nose, from |-> from]

(* _preview_loop once preview_running is known to hold, with t callbacks   *)
(* pending besides the one being run.                                      *)
PreviewLoop(cap, paused, t) ==
    IF paused
    THEN /\ preview_cap' = cap
         /\ ui' = ui
         /\ timers' = t + 1
    ELSE LET r == PreviewRead(cap)
         IN  /\ preview_cap' = r.cap
             /\ IF r.ret
                THEN /\ \E kp \in TrackerKeypoints : ui' = UiClassify(kp, "loop")
                     /\ timers' = t
                ELSE /\ ui' = ui
                     /\ timers' = t + 1

(* toggle_preview: _start_preview (which runs _preview_loop once), or      *)
(* pause / resume.                                                         *)
toggle_preview ==
    /\ UiReady
    /\ video_path # ""
    /\ IF ~preview_running
       THEN /\ timers < MaxTimers
            /\ preview_running' = TRUE
            /\ preview_paused' = FALSE
            /\ PreviewLoop(<<video_path, 0>>, FALSE, timers)
       ELSE /\ preview_paused' = ~preview_paused
            /\ UNCHANGED <<preview_running, preview_cap, timers, ui>>
    /\ UNCHANGED <<prev_nose, arena_bounds, elsewhere, keypoint_data,
                   threads, video_path, output_folder, app_arena_bounds,
                   drawing_mode, start_xy, rect_id, is_processing,
                   btn_start, complete_pending, worker>>

(* A pending _preview_loop callback runs.  With no capture the read        *)
(* raises and the callback ends without scheduling the next one.           *)
preview_loop ==
    /\ UiReady
    /\ timers > 0
    /\ IF ~preview_running \/ preview_cap = None
       THEN /\ timers' = timers - 1
            /\ UNCHANGED <<preview_cap, ui>>
       ELSE PreviewLoop(preview_cap, preview_paused, timers - 1)
    /\ UNCHANGED <<prev_nose, arena_bounds, elsewhere, keypoint_data,
                   threads, video_path, output_folder, app_arena_bounds,
                   drawing_mode, start_xy, rect_id, is_processing,
                   btn_start, preview_running, preview_paused,
                   complete_pending, worker>>

(* The UI thread's classify_full call writes prev_nose and returns; the    *)
(* handler it was made from runs to its end (_preview_loop schedules the   *)
(* next callback).                                                         *)
display_preview_frame ==
    /\ ui.pc = "classify"
    /\ LET nose == Get(ui.kp, "nose", <<0, 0>>)
       IN  prev_nose' = calculate_velocity(ui.prev, nose).prev_nose
    /\ timers' = IF ui.from = "loop" THEN timers + 1 ELSE timers
    /\ ui' = UiIdle
    /\ UNCHANGED <<arena_bounds, elsewhere, keypoint_data, threads,
                   video_path, output_folder, app_arena_bounds,
                   drawing_mode, start_xy, rect_id, is_processing,
                   btn_start, preview_running, preview_paused, preview_cap,
                   complete_pending, worker>>

step_preview ==
    /\ UiReady
    /\ video_path # ""
    /\ LET cap == IF preview_cap = None THEN <<video_path, 0>>
                  ELSE preview_cap
       IN  IF cap[2] < FrameCount(cap[1])
           THEN /\ preview_cap' = <<cap[1], cap[2] + 1>>
                /\ \E kp \in TrackerKeypoints : ui' = UiClassify(kp, "step")
           ELSE /\ preview_cap' = <<cap[1], 0>>
                /\ ui' = ui
    /\ UNCHANGED <<prev_nose, arena_bounds, elsewhere, keypoint_data,
                   threads, video_path, output_folder, app_arena_bounds,
                   drawing_mode, start_xy, rect_id, is_processing,
                   btn_start, preview_running, preview_paused, timers,
                   complete_pending, worker>>

stop_preview ==
    /\ UiReady
    /\ preview_running' = FALSE
    /\ preview_paused' = FALSE
    /\ preview_cap' = None
    /\ UNCHANGED <<prev_nose, arena_bounds, elsewhere, keypoint_data,
                   threads, video_path, output_folder, app_arena_bounds,
                   drawing_mode, start_xy, rect_id, is_processing,
                   btn_start, timers, complete_pending, ui, worker>>

----------------------------------------------------------------------------
(* The analysis thread, _run_analysis *)

workerOnly == <<arena_bounds, elsewhere, keypoint_data, video_path,
                output_folder, app_arena_bounds, drawing_mode, start_xy,
                rect_id, is_processing, btn_start, preview_running,
                preview_paused, preview_cap, timers, ui>>

(* Mutant: the row is numbered after frame_idx has been advanced.          *)
AppendRow_late(results, frame_idx, kp, behavior) ==
    Append(results,
           [Frame |-> frame_idx + 1,
            Location |-> behavior.location,
            Attention |-> behavior.attention,
            Nose_X |-> kp["nose"][1],
            Nose_Y |-> kp["nose"][2],
            Head_Angle |-> behavior.head_angle])

(* results.append({...}) *)
AppendRow(results, frame_idx, kp, behavior) ==
    Append(results,
           [Frame |-> frame_idx,
            Location |-> behavior.location,
            Attention |-> behavior.attention,
            Nose_X |-> kp["nose"][1],
            Nose_Y |-> kp["nose"][2],
            Head_Angle |-> behavior.head_angle])

(* cv2.VideoCapture(self.video_path); results = []; frame_idx = 0 *)
run_analysis_open ==
    /\ worker.pc = "open"
    /\ worker' = [worker EXCEPT !.pc = "read", !.video = video_path]
    /\ UNCHANGED <<prev_nose, complete_pending, threads, workerOnly>>

(* cap.read(); at the end of the video leave the loop; otherwise           *)
(* get_keypoints and the entry of classify_full with its read of           *)
(* prev_nose.                                                              *)
run_analysis_read ==
    /\ worker.pc = "read"
    /\ IF worker.frame_idx < FrameCount(worker.video)
       THEN \E kp \in TrackerKeypoints :
               worker' = [worker EXCEPT !.pc = "velocity", !.kp = kp,
                                        !.prev = prev_nose]
       ELSE worker' = [worker EXCEPT !.pc = "save"]
    /\ UNCHANGED <<prev_nose, complete_pending, threads, workerOnly>>

(* _calculate_velocity: the write of prev_nose and the velocity returned *)
run_analysis_velocity ==
    /\ worker.pc = "velocity"
    /\ LET vel == calculate_velocity(worker.prev, worker.kp["nose"])
       IN  /\ prev_nose' = vel.prev_nose
           /\ worker' = [worker EXCEPT !.pc = "location",
                                       !.velocity = vel.velocity]
    /\ UNCHANGED <<complete_pending, threads, workerOnly>>

(* classify_full lines 53-56: the location under the arena now set *)
run_analysis_location ==
    /\ worker.pc = "location"
    /\ worker' = [worker EXCEPT
          !.pc = "attention",
          !.location = IF Truthy(arena_bounds)
                       THEN get_location_from_arena(arena_bounds,
                                                    worker.kp["nose"])
                       ELSE get_location_from_frame(worker.kp["nose"],
                                                    VideoHeight)]
    /\ UNCHANGED <<prev_nose, complete_pending, threads, workerOnly>>

(* classify_full lines 58-67 under the arena now set, then the row of the  *)
(* frame and frame_idx += 1; the locals of the iteration are dead.         *)
run_analysis_attention ==
    /\ worker.pc = "attention"
    /\ LET kp == worker.kp
           nose == kp["nose"]
           tail == kp["tail_base"]
           head_angle == calculate_head_angle(nose, tail)
           behavior ==
              [location |-> worker.location,
               attention |-> get_attention(arena_bounds, nose, tail,
                                kp["left_ear"], kp["right_ear"],
                                worker.velocity, distance(nose, tail),
                                head_angle, worker.location),
               head_angle |-> head_angle]
       IN  worker' = [worker EXCEPT
              !.pc = "read", !.kp = WorkerNone.kp,
              !.prev = WorkerNone.prev, !.velocity = WorkerNone.velocity,
              !.location = WorkerNone.location,
              !.results = AppendRow(worker.results, worker.frame_idx, kp,
                                    behavior),
              !.log = Append(worker.log, [nose |-> nose,
                                          behavior |-> behavior]),
              !.frame_idx = worker.frame_idx + 1]
    /\ UNCHANGED <<prev_nose, complete_pending, threads, workerOnly>>

(* cap.release(), the CSV of results, and the completion callback posted   *)
(* to the UI thread; the thread ends.  When to_csv raises (the folder is   *)
(* gone or not writable) the thread ends without posting the callback.     *)
run_analysis_save ==
    /\ worker.pc = "save"
    /\ worker' = WorkerNone
    /\ threads' = threads - 1
    /\ \E saved \in BOOLEAN :
          complete_pending' = (saved \/ complete_pending)
    /\ UNCHANGED <<prev_nose, workerOnly>>

NextApp ==
    \/ \E v \in Videos : load_video(v)
    \/ set_output_folder
    \/ start_drawing_arena
    \/ \E p \in MouseDownPoints : on_mouse_down(p)
    \/ \E p \in MouseUpPoints : on_mouse_up(p)
    \/ start_processing
    \/ on_processing_complete
    \/ toggle_preview
    \/ preview_loop
    \/ display_preview_frame
    \/ step_preview
    \/ stop_preview
    \/ run_analysis_open
    \/ run_analysis_read
    \/ run_analysis_velocity
    \/ run_analysis_location
    \/ run_analysis_attention
    \/ run_analysis_save

SpecApp == Init /\ [][NextApp]_vars

----------------------------------------------------------------------------
(* The installer, src/installer.py: one RATInstaller window and its        *)
(* installation thread.  Of the callbacks the thread posts with after(0)   *)
(* only _installation_complete and _installation_failed are kept (the log, *)
(* status and progress callbacks write no field read here).                *)

(* The steps list of _run_installation *)
Steps == <<"conda", "environment", "dependencies", "model", "finalize">>

CONDA_DEPS == <<"tensorflow", "deeplabcut">>

PIP_DEPS == <<"numpy", "pandas", "customtkinter", "opencv-python", "pillow">>

notInstaller == <<prev_nose, arena_bounds, callVars, appVars, trackerVars>>

(* _do_check, once, 500 ms after construction: conda may be found, and     *)
(* with an existing 'rat' environment the Install button reads Reinstall.  *)
do_check(found, env_exists) ==
    /\ ~installer.checked
    /\ installer' =
          [installer EXCEPT
             !.checked = TRUE,
             !.conda_path = @ \/ found,
             !.btn_install = IF (installer.conda_path \/ found) /\ env_exists
                             THEN "normal" ELSE @]
    /\ UNCHANGED notInstaller

(* start_installation, by a click on the enabled Install button *)
start_installation ==
    /\ installer.btn_install = "normal"
    /\ ~installer.is_installing
    /\ installer' =
          [installer EXCEPT
             !.is_installing = TRUE, !.btn_install = "disabled",
             !.threads = @ + 1, !.pc = 1, !.sub = 0,
             !.failed_critical = {}, !.ran = << >>, !.reached = ""]
    /\ UNCHANGED notInstaller

(* Mutant: a step that does not succeed is followed by the next step.      *)
AfterStep_continue(r, s, outcome) ==
    LET r1 == [r EXCEPT !.ran = Append(@, [step |-> Steps[s],
                                           outcome |-> outcome])]
    IN  IF s < Len(Steps)
        THEN [r1 EXCEPT !.pc = s + 1, !.sub = IF s + 1 = 3 THEN 1 ELSE 0]
        ELSE [r1 EXCEPT !.pc = 0, !.sub = 0, !.threads = @ - 1,
                        !.pending = Append(@, "complete")]

(* The loop body of _run_installation after step_func() of step s has      *)
(* returned True ("ok"), returned False ("fail") or raised ("raise"): the  *)
(* next step, or the callback posted and the end of the thread.            *)
AfterStep(r, s, outcome) ==
    LET r1 == [r EXCEPT !.ran = Append(@, [step |-> Steps[s],
                                           outcome |-> outcome])]
    IN  IF outcome = "ok"
        THEN IF s < Len(Steps)
             THEN [r1 EXCEPT !.pc = s + 1,
                             !.sub = IF s + 1 = 3 THEN 1 ELSE 0]
             ELSE [r1 EXCEPT !.pc = 0, !.sub = 0, !.threads = @ - 1,
                             !.pending = Append(@, "complete")]
        ELSE [r1 EXCEPT !.pc = 0, !.sub = 0, !.threads = @ - 1,
                        !.pending = Append(@, "failed")]

(* _install_conda: nothing to do when conda is known; else the download    *)
(* and the Miniconda installer succeed, setting conda_path, or fail.       *)
install_conda ==
    /\ installer.pc = 1
    /\ \E outcome \in {"ok", "fail"} :
          /\ installer.conda_path => outcome = "ok"
          /\ installer' =
                AfterStep([installer EXCEPT
                             !.conda_path = @ \/ outcome = "ok"],
                          1, outcome)
    /\ UNCHANGED notInstaller

(* _create_environment *)
create_environment ==
    /\ installer.pc = 2
    /\ \E outcome \in {"ok", "fail"} :
          installer' = AfterStep(installer, 2, outcome)
    /\ UNCHANGED notInstaller

(* _install_dependencies, the loop over CONDA_DEPS: a non-zero return code *)
(* puts the package in failed_critical; an exception (a timeout) ends the  *)
(* step with False.                                                        *)
install_conda_dep ==
    /\ installer.pc = 3
    /\ installer.sub \in 1..Len(CONDA_DEPS)
    /\ \E rc \in {"ok", "fail", "raise"} :
          installer' =
             IF rc = "raise" THEN AfterStep(installer, 3, "fail")
             ELSE [installer EXCEPT
                     !.sub = @ + 1,
                     !.failed_critical =
                        IF rc = "fail"
                        THEN @ \cup {CONDA_DEPS[installer.sub]} ELSE @]
    /\ UNCHANGED notInstaller

(* _install_dependencies, the loop over PIP_DEPS: a non-zero return code   *)
(* is only logged.                                                         *)
install_pip_dep ==
    /\ installer.pc = 3
    /\ installer.sub \in Len(CONDA_DEPS) + 1 .. Len(CONDA_DEPS) + Len(PIP_DEPS)
    /\ \E rc \in {"ok", "fail", "raise"} :
          installer' =
             IF rc = "raise" THEN AfterStep(installer, 3, "fail")
             ELSE [installer EXCEPT !.sub = @ + 1]
    /\ UNCHANGED notInstaller

(* Mutant: failed critical packages are only logged.                       *)
DependenciesResult_lenient(failed_critical) == "ok"

(* The value _install_dependencies returns after its two loops *)
DependenciesResult(failed_critical) ==
    IF failed_critical # {} THEN "fail" ELSE "ok"

install_dependencies_return ==
    /\ installer.pc = 3
    /\ installer.sub = Len(CONDA_DEPS) + Len(PIP_DEPS) + 1
    /\ installer' =
          AfterStep(installer, 3,
                    DependenciesResult(installer.failed_critical))
    /\ UNCHANGED notInstaller

(* _download_model: a verification that times out counts as success *)
download_model ==
    /\ installer.pc = 4
    /\ \E verify \in {"ok", "timeout", "fail"} :
          installer' =
             AfterStep(installer, 4,
                       IF verify = "fail" THEN "fail" ELSE "ok")
    /\ UNCHANGED notInstaller

(* _finalize has no try of its own: an exception of its after() calls is   *)
(* caught by _run_installation.                                            *)
finalize ==
    /\ installer.pc = 5
    /\ \E outcome \in {"ok", "raise"} :
          installer' = AfterStep(installer, 5, outcome)
    /\ UNCHANGED notInstaller

installation_complete ==
    /\ installer.pending # << >>
    /\ Head(installer.pending) = "complete"
    /\ installer' =
          [installer EXCEPT
             !.pending = Tail(@), !.is_installing = FALSE,
             !.btn_install = "normal", !.reached = "complete"]
    /\ UNCHANGED notInstaller

installation_failed ==
    /\ installer.pending # << >>
    /\ Head(installer.pending) = "failed"
    /\ installer' =
          [installer EXCEPT
             !.pending = Tail(@), !.is_installing = FALSE,
             !.btn_install = "normal", !.reached = "failed"]
    /\ UNCHANGED notInstaller

NextInstaller ==
    \/ \E found \in BOOLEAN, env_exists \in BOOLEAN :
          do_check(found, env_exists)
    \/ start_installation
    \/ install_conda
    \/ create_environment
    \/ install_conda_dep
    \/ install_pip_dep
    \/ install_dependencies_return
    \/ download_model
    \/ finalize
    \/ installation_complete
    \/ installation_failed

SpecInstaller == Init /\ [][NextInstaller]_vars

----------------------------------------------------------------------------
(* The latest call, as the properties below read it *)

CallNose == Get(keypoints, "nose", <<0, 0>>)

CallTail == Get(keypoints, "tail_base", <<0, 0>>)

CallLeftEar == Get(keypoints, "left_ear", CallNose)

CallRightEar == Get(keypoints, "right_ear", CallNose)

(* A call has been made and the arena has not been changed since.          *)
Classified == run > 0

Slow == Less(velocity, VELOCITY_THRESHOLD)

GroomingRule ==
    Slow /\ (Less(distance(CallNose, CallTail), GROOMING_DISTANCE)
             \/ Less(distance(CallLeftEar, CallRightEar), EAR_SPREAD_THRESHOLD))

NearLeftOrRight ==
    \/ Abs(CallNose[1] - arena_bounds[1]) < SNIFFING_WALL_DISTANCE
    \/ Abs(CallNose[1] - arena_bounds[3]) < SNIFFING_WALL_DISTANCE

NearTop == Abs(CallNose[2] - arena_bounds[2]) < SNIFFING_WALL_DISTANCE

NearBottom == Abs(CallNose[2] - arena_bounds[4]) < SNIFFING_WALL_DISTANCE

ExampleArena == <<0, 0, 100, 400>>

----------------------------------------------------------------------------
(* C1: the first classify_full call of a classifier computes velocity 0    *)
(* and stores its nose as the previous nose, for every nose, arena and     *)
(* frame height.                                                           *)
C1_FirstCallVelocityZero ==
    calls = 1 => /\ entry_prev = None
                 /\ velocity = 0
                 /\ prev_nose = CallNose

C1_Witness ==
    /\ calls = 1
    /\ CallNose = <<50, 380>>
    /\ arena_bounds = ExampleArena
    /\ velocity = 0

(* C2: from the second call on, the velocity of a call is the Euclidean    *)
(* distance between its nose and the nose of the call before it, and the   *)
(* call stores its nose as the previous nose; (100,100) then (103,104)     *)
(* gives 5, which is not below the threshold.                              *)
C2_VelocityIsDistance ==
    [][(calls' = calls + 1 /\ calls >= 1) =>
          /\ velocity' = distance(CallNose', CallNose)
          /\ prev_nose' = CallNose'
          /\ (CallNose = <<100, 100>> /\ CallNose' = <<103, 104>> =>
                 /\ velocity' = 5 * 5
                 /\ ~Less(velocity', VELOCITY_THRESHOLD))]_vars

C2_Witness ==
    /\ calls >= 2
    /\ entry_prev = <<100, 100>>
    /\ CallNose = <<103, 104>>
    /\ velocity = 25

(* C3: whenever velocity < 5 and (nose-tail distance < 50 or ear spread    *)
(* < 20) the attention is Grooming, for every arena setting, location and  *)
(* wall proximity.                                                         *)
C3_GroomingFirst ==
    (calls > 0 /\ GroomingRule) => result.attention = "Grooming"

(* Grooming where the Sniffing Top conditions hold too.                    *)
C3_Witness ==
    /\ Classified
    /\ arena_bounds = ExampleArena
    /\ GroomingRule
    /\ result.location = "Top Stimulus"
    /\ NearTop
    /\ result.attention = "Grooming"

(* C4: with an arena of positive height the location is the band           *)
(* floor(4 * (nose.y - y1) / (y2 - y1)) clamped to 0..3; a nose on a band  *)
(* boundary belongs to the lower band, and the nose x plays no part.       *)
Band ==
    LET rel == CallNose[2] - arena_bounds[2]
        h == arena_bounds[4] - arena_bounds[2]
    IN  IF rel < 0 THEN 0
        ELSE IF (4 * rel) \div h > 3 THEN 3
        ELSE (4 * rel) \div h

BandLabel ==
    <<"Top Stimulus", "Adj to Top", "Adj to Bottom", "Bottom Stimulus">>

C4_ArenaBands ==
    (Classified /\ arena_bounds # None /\ arena_bounds[4] > arena_bounds[2])
       => /\ result.location = BandLabel[Band + 1]
          /\ arena_bounds = ExampleArena =>
                /\ CallNose[2] = 100 => result.location = "Adj to Top"
                /\ CallNose[2] = 200 => result.location = "Adj to Bottom"
                /\ CallNose[2] = 300 => result.location = "Bottom Stimulus"

C4_Witness ==
    /\ Classified
    /\ arena_bounds = ExampleArena
    /\ CallNose = <<100, 100>>
    /\ result.location = "Adj to Top"

(* C5: with an arena set the attention is Sniffing Top exactly when the    *)
(* frame is not Grooming, the location is Top Stimulus, velocity < 5 and   *)
(* the nose is less than 30 px from the top, left or right edge.           *)
C5_SniffingTop ==
    (Classified /\ arena_bounds # None) =>
       (result.attention = "Sniffing Top"
          <=> /\ ~GroomingRule
              /\ result.location = "Top Stimulus"
              /\ Slow
              /\ (NearTop \/ NearLeftOrRight))

C5_Witness ==
    /\ Classified
    /\ arena_bounds = ExampleArena
    /\ CallNose = <<50, 29>>
    /\ result.attention = "Sniffing Top"

(* C6: with an arena set the attention is Sniffing Bottom exactly when the *)
(* frame is not Grooming, the location is Bottom Stimulus, velocity < 5    *)
(* and the nose is less than 30 px from the bottom, left or right edge.    *)
C6_SniffingBottom ==
    (Classified /\ arena_bounds # None) =>
       (result.attention = "Sniffing Bottom"
          <=> /\ ~GroomingRule
              /\ result.location = "Bottom Stimulus"
              /\ Slow
              /\ (NearBottom \/ NearLeftOrRight))

C6_Witness ==
    /\ Classified
    /\ arena_bounds = ExampleArena
    /\ CallNose = <<50, 380>>
    /\ result.attention = "Sniffing Bottom"

(* C7: a frame in a stimulus zone that is neither Grooming nor a sniff is  *)
(* labelled by its zone, Head Top in Top Stimulus and Head Bottom in       *)
(* Bottom Stimulus, for every head angle.                                  *)
C7_ZonePresence ==
    Classified =>
       /\ (result.location = "Top Stimulus"
           /\ result.attention \notin {"Grooming", "Sniffing Top"})
             => result.attention = "Head Top"
       /\ (result.location = "Bottom Stimulus"
           /\ result.attention \notin {"Grooming", "Sniffing Bottom"})
             => result.attention = "Head Bottom"

(* C8: in the head-direction fallback, away from the left and right walls  *)
(* (or with no arena), the attention is Head Top iff -45 <= angle <= 45,   *)
(* Head Bottom iff angle > 135 or angle < -135, Head Middle/Nothing        *)
(* otherwise.                                                              *)
FallbackReached ==
    result.attention \notin {"Grooming", "Sniffing Top", "Sniffing Bottom"}

C8_HeadCones ==
    (Classified /\ FallbackReached
       /\ (arena_bounds = None \/ ~NearLeftOrRight))
    => /\ result.attention = "Head Top"
             <=> (-450 <= result.head_angle /\ result.head_angle <= 450)
       /\ result.attention = "Head Bottom"
             <=> (result.head_angle > 1350 \/ result.head_angle < -1350)
       /\ result.attention \in
             {"Head Top", "Head Bottom", "Head Middle/Nothing"}

(* The inclusive bound -45 under an arena, away from its walls.            *)
C8_Witness ==
    /\ Classified
    /\ arena_bounds = ExampleArena
    /\ CallNose = <<50, 200>>
    /\ result.head_angle = -450
    /\ result.attention = "Head Top"

(* C9 as stated: with an arena set, the nose outside both stimulus zones   *)
(* and within 30 px of the left or right edge, the attention is            *)
(* Head Middle/Nothing for every head angle and every tail position.       *)
C9_WallOverridesAll ==
    (Classified /\ arena_bounds # None
       /\ result.location \in {"Adj to Top", "Adj to Bottom"}
       /\ NearLeftOrRight)
    => result.attention = "Head Middle/Nothing"

(* C9 amended: the same, for every frame that is not Grooming.             *)
C9_WallOverridesAngle ==
    (Classified /\ arena_bounds # None
       /\ result.location \in {"Adj to Top", "Adj to Bottom"}
       /\ NearLeftOrRight
       /\ ~GroomingRule)
    => result.attention = "Head Middle/Nothing"

(* CallNose (5,200) in the example arena with the head pointing straight up.   *)
C9_Witness ==
    /\ Classified
    /\ arena_bounds = ExampleArena
    /\ CallNose = <<5, 200>>
    /\ result.head_angle = 0
    /\ ~GroomingRule
    /\ result.attention = "Head Middle/Nothing"

(* C10: on a fresh classifier with arena (0,0,100,400), frames that all    *)
(* carry nose (50,380) and tail_base (50,300) and nothing else are         *)
(* located in Bottom Stimulus and, while velocity < 5, labelled            *)
(* Sniffing Bottom.                                                        *)
ScenarioKeypoints == [nose |-> <<50, 380>>, tail_base |-> <<50, 300>>]

C10_Scenario ==
    (calls >= 1 /\ run = calls /\ arena_bounds = ExampleArena
       /\ keypoints = ScenarioKeypoints)
    => /\ result.location = "Bottom Stimulus"
       /\ Slow => result.attention = "Sniffing Bottom"

(* C11: Grooming is returned only if velocity < 5 and (nose-tail distance  *)
(* < 50 or ear spread < 20); the thresholds are strict, so a velocity of   *)
(* exactly 5, or a distance of exactly 50 with a spread of exactly 20,     *)
(* never gives Grooming.                                                   *)
C11_GroomingOnlyByRule ==
    calls > 0 =>
       /\ result.attention = "Grooming" => GroomingRule
       /\ velocity >= 5 * 5 => result.attention # "Grooming"
       /\ (distance(CallNose, CallTail) = 50 * 50
           /\ distance(CallLeftEar, CallRightEar) = 20 * 20)
             => result.attention # "Grooming"

(* Velocity exactly 5 with the tail 10 px from the nose.                   *)
C11_Witness ==
    /\ calls > 0
    /\ velocity = 25
    /\ Less(distance(CallNose, CallTail), GROOMING_DISTANCE)
    /\ result.attention # "Grooming"

(* C12: with no arena set the location is the band of nose.y in the frame: *)
(* below h/4 Top Stimulus, below h/2 Adj to Top, below 3h/4 Adj to Bottom, *)
(* otherwise Bottom Stimulus, a boundary belonging to the lower band.      *)
FrameBand ==
    LET y == CallNose[2]
        h == frame_height
    IN  IF 4 * y < h THEN 0
        ELSE IF 2 * y < h THEN 1
        ELSE IF 4 * y < 3 * h THEN 2
        ELSE 3

C12_FrameBands ==
    (calls > 0 /\ arena_bounds = None)
       => result.location = BandLabel[FrameBand + 1]

(* A nose on the boundary h/4 of a frame 400 high.                         *)
C12_Witness ==
    /\ calls > 0
    /\ arena_bounds = None
    /\ frame_height = 400
    /\ CallNose[2] = 100
    /\ result.location = "Adj to Top"

(* C13: with no arena set neither classify_full nor classify_state ever    *)
(* returns Sniffing Top or Sniffing Bottom.                                *)
C13_NoSniffUncalibrated ==
    (calls > 0 /\ arena_bounds = None)
       => /\ result.attention \notin {"Sniffing Top", "Sniffing Bottom"}
          /\ state_label[2] \notin {"Sniffing Top", "Sniffing Bottom"}

(* C18: the head angle is 0 with the nose straight above the tail, +90     *)
(* straight right, -90 straight left and 180 (never -180) straight below;  *)
(* get_orientation_angle gives the head_angle of classify_full.            *)
C18_CardinalAngles ==
    calls > 0 =>
       /\ (CallNose[1] = CallTail[1] /\ CallNose[2] < CallTail[2])
             => result.head_angle = 0
       /\ (CallNose[2] = CallTail[2] /\ CallNose[1] > CallTail[1])
             => result.head_angle = 900
       /\ (CallNose[2] = CallTail[2] /\ CallNose[1] < CallTail[1])
             => result.head_angle = -900
       /\ (CallNose[1] = CallTail[1] /\ CallNose[2] > CallTail[2])
             => result.head_angle = 1800
       /\ result.head_angle # -1800
       /\ get_orientation_angle(keypoints) = result.head_angle

C18_Witness ==
    /\ calls > 0
    /\ CallNose[1] = CallTail[1]
    /\ CallNose[2] > CallTail[2]
    /\ result.head_angle = 1800

(* C19: classify_full returns a result for every subset of missing parts,  *)
(* the result of the mapping completed with (0,0) for a missing nose or    *)
(* tail_base and the nose for a missing ear, and stores the nose used.     *)
Completed(kp) ==
    LET n == IF "nose" \in DOMAIN kp THEN kp["nose"] ELSE <<0, 0>>
    IN  [nose |-> n,
         tail_base |-> IF "tail_base" \in DOMAIN kp THEN kp["tail_base"]
                       ELSE <<0, 0>>,
         left_ear |-> IF "left_ear" \in DOMAIN kp THEN kp["left_ear"] ELSE n,
         right_ear |-> IF "right_ear" \in DOMAIN kp THEN kp["right_ear"]
                       ELSE n]

C19_PartialKeypoints ==
    Classified =>
       /\ result = BehaviorResult(arena_bounds, Completed(keypoints),
                                  frame_height, velocity)
       /\ result.location \in {BandLabel[i] : i \in 1..4}
       /\ prev_nose = Completed(keypoints).nose

(* Only the right ear present: nose and tail at the origin, left ear at    *)
(* the nose.                                                               *)
C19_Witness ==
    /\ Classified
    /\ DOMAIN keypoints = {"right_ear"}
    /\ prev_nose = <<0, 0>>

(* C20 as stated: for a zero-height arena or an inverted one (y2 < y1 or   *)
(* x2 < x1) the location is Top Stimulus when nose.y < y1 and Bottom       *)
(* Stimulus otherwise.                                                     *)
C20_MalformedTopOrBottom ==
    (Classified /\ arena_bounds # None
       /\ (arena_bounds[4] <= arena_bounds[2]
           \/ arena_bounds[3] < arena_bounds[1]))
    => result.location = IF CallNose[2] < arena_bounds[2]
                         THEN "Top Stimulus" ELSE "Bottom Stimulus"

(* C20 amended: the same for the arenas of height zero or less (y2 <= y1). *)
C20_FlatTopOrBottom ==
    (Classified /\ arena_bounds # None
       /\ arena_bounds[4] <= arena_bounds[2])
    => result.location = IF CallNose[2] < arena_bounds[2]
                         THEN "Top Stimulus" ELSE "Bottom Stimulus"

(* An inverted arena with the nose above its y1.                           *)
C20_Witness ==
    /\ Classified
    /\ arena_bounds = <<100, 400, 0, 0>>
    /\ CallNose[2] < 400
    /\ result.location = "Top Stimulus"

----------------------------------------------------------------------------
(* Claims about the application *)

(* The analysis thread is inside classify_full for its frame.              *)
WorkerClassifying == worker.pc \in {"velocity", "location", "attention"}

(* The analysis thread has the velocity of its frame.                      *)
WorkerHasVelocity == worker.pc \in {"location", "attention"}

(* C14: frame 0 of every analysis run is classified with velocity 0,       *)
(* whatever the user did before the run (preview playback, single-step     *)
(* preview, an earlier run, loading another video).                        *)
C14_FrameZeroVelocityZero ==
    (WorkerHasVelocity /\ worker.frame_idx = 0) => worker.velocity = 0

(* C15: no classify_full call of the preview (UI thread) overlaps or       *)
(* interleaves with the calls of a running analysis, so the previous nose  *)
(* an analysis frame reads is the nose of the preceding analysis frame.    *)
C15_SequentialCalls ==
    /\ ~(ui.pc = "classify" /\ WorkerClassifying)
    /\ (worker.pc = "velocity" /\ worker.frame_idx >= 1)
         => worker.prev = worker.log[worker.frame_idx].nose

(* C16: from the start of an analysis until the thread has ended, the      *)
(* arena bounds of the classifier do not change.                           *)
C16_ArenaFixedDuringAnalysis ==
    [][worker.pc # "none" => arena_bounds' = arena_bounds]_vars

(* C17: the results table has one row per frame read, in call order: row i *)
(* has Frame i (from 0, no gap, duplicate or reordering) and the location, *)
(* attention, head angle and nose of the call made for frame i; at the     *)
(* end of the video it has one row for each frame of the video.            *)
C17_ResultRows ==
    /\ Len(worker.results) = worker.frame_idx
    /\ Len(worker.log) = worker.frame_idx
    /\ \A i \in 1..Len(worker.results) :
          LET row == worker.results[i]
              call == worker.log[i]
          IN  /\ row.Frame = i - 1
              /\ row.Location = call.behavior.location
              /\ row.Attention = call.behavior.attention
              /\ row.Head_Angle = call.behavior.head_angle
              /\ <<row.Nose_X, row.Nose_Y>> = call.nose
    /\ worker.pc = "save" => Len(worker.results) = FrameCount(worker.video)

(* The whole of the longer video has been classified, with two frames      *)
(* that differ in location.                                                *)
C17_Witness ==
    /\ worker.pc = "save"
    /\ Len(worker.results) = MaxFrames
    /\ worker.results[1].Location # worker.results[2].Location

----------------------------------------------------------------------------
(* Claims about the labels and the inputs a result depends on *)

Locations ==
    {"Top Stimulus", "Adj to Top", "Adj to Bottom", "Bottom Stimulus"}

AttentionLabels ==
    {"Grooming", "Sniffing Top", "Sniffing Bottom", "Head Top",
     "Head Bottom", "Head Middle/Nothing"}

(* C21: every result of classify_full, after any sequence of set_arena     *)
(* and classify calls, has one of the four zone names as location (never   *)
(* "Unknown") and one of the six attention labels.                         *)
C21_LabelSets ==
    calls > 0 => /\ result.location \in Locations
                 /\ result.attention \in AttentionLabels

(* A call on a classifier without arena, where the arena resolver would    *)
(* answer "Unknown".                                                       *)
C21_Witness ==
    /\ calls > 0
    /\ arena_bounds = None
    /\ get_location_from_arena(arena_bounds, CallNose) = "Unknown"
    /\ result.location = "Bottom Stimulus"

----------------------------------------------------------------------------
(* Claims about the keypoint source *)

TrackerCalled == tracker_call # NoCall

(* The latest get_keypoints call had pose data and a frame index.          *)
FromData == TrackerCalled /\ keypoint_data # None
               /\ tracker_call.frame_idx # None

(* The row the latest call indexes exists.                                 *)
RowExists ==
    LET n == Len(keypoint_data.rows)
        i == tracker_call.frame_idx[1]
    IN  -n <= i /\ i < n

CallRow ==
    LET n == Len(keypoint_data.rows)
        i == tracker_call.frame_idx[1]
    IN  keypoint_data.rows[IF i >= 0 THEN i + 1 ELSE n + i + 1]

(* The part has no column in the data, under its name or an alternative.   *)
PartAbsent(name) == ResolvePart(keypoint_data, name) = ""

(* The part has a column and its likelihood in the row is below 0.3.       *)
PartBelow(name) ==
    /\ ~PartAbsent(name)
    /\ CallRow[ResolvePart(keypoint_data, name)].conf < CONFIDENCE_THRESHOLD

CallCentre == FrameCentre(tracker_call.frame)

(* C23 as stated: every path returns the four parts, and with pose data a  *)
(* part that is absent from the data, or below the confidence threshold in *)
(* the row, is placed at the frame centre.                                 *)
C23_FourPartsCentre ==
    /\ TrackerCalled => DOMAIN tracker_call.out.kp = Parts
    /\ FromData =>
          \A name \in Parts :
             (PartAbsent(name) \/ (RowExists /\ PartBelow(name)))
                => tracker_call.out.kp[name] = CallCentre

(* C23 amended: every path returns the four parts; when the indexed row    *)
(* exists and is parsed without exception, a part that is absent or below  *)
(* the threshold is placed at the frame centre; past the end of the data   *)
(* or after an exception all four parts are the demo keypoints.            *)
C23_FourPartsCentreWhenParsed ==
    /\ TrackerCalled => DOMAIN tracker_call.out.kp = Parts
    /\ FromData =>
          LET parsed == RowExists
                        /\ \A name \in Parts :
                              ~PartRaises(keypoint_data, CallRow, name,
                                          tracker_call.frame)
          IN  /\ tracker_call.out.src = "data" <=> parsed
              /\ parsed =>
                    \A name \in Parts :
                       (PartAbsent(name) \/ PartBelow(name))
                          => tracker_call.out.kp[name] = CallCentre
    /\ (TrackerCalled /\ ~FromData) => tracker_call.out.src = "demo"

(* A parsed row of a file without ear columns, with the nose below the     *)
(* threshold and the tail base above it.                                   *)
C23_Witness ==
    /\ FromData
    /\ tracker_call.out.src = "data"
    /\ PartAbsent("left_ear")
    /\ PartBelow("nose")
    /\ tracker_call.out.kp["nose"] = CallCentre
    /\ tracker_call.out.kp["tail_base"] # CallCentre

----------------------------------------------------------------------------
(* Claims about the lifetime of the classifier, the tracker and the        *)
(* analysis thread in the application                                      *)

(* C24: nothing returns the previous nose of the classifier to absent      *)
(* once a frame has been classified (a new analysis, another video, a      *)
(* stopped preview, set_arena), so frame 0 of a later analysis gets as     *)
(* velocity the distance to the nose classified last before it.            *)
C24_NoReset ==
    [][/\ prev_nose # None => prev_nose' # None
       /\ (worker.pc = "velocity" /\ worker'.pc = "location"
            /\ worker.frame_idx = 0 /\ worker.prev # None)
          => worker'.velocity = distance(worker.kp["nose"], worker.prev)
      ]_vars

(* Frame 0 of an analysis of the second video, with the preview stopped,   *)
(* classified 200 px away from the nose classified last before it.         *)
C24_Witness ==
    /\ WorkerHasVelocity
    /\ worker.frame_idx = 0
    /\ worker.video = "b.mp4"
    /\ ~preview_running /\ preview_cap = None
    /\ worker.velocity = 200 * 200

(* C26: in the application the tracker never has pose data and no frame    *)
(* index is passed to it, so every analysis frame and every preview frame  *)
(* is classified on demo keypoints.                                        *)
C26_DemoKeypointsOnly ==
    /\ keypoint_data = None
    /\ AppFrameIdx = None
    /\ TrackerKeypoints = AppKeypoints
    /\ WorkerClassifying => worker.kp \in AppKeypoints
    /\ ui.pc = "classify" => ui.kp \in AppKeypoints

(* The second frame of an analysis and a preview frame, both in            *)
(* classification.                                                         *)
C26_Witness ==
    /\ WorkerClassifying
    /\ worker.frame_idx = 1
    /\ ui.pc = "classify"
    /\ keypoint_data = None

(* C27: at most one analysis thread is alive; a click on Start while       *)
(* is_processing holds starts nothing, also when _check_ready has enabled  *)
(* the button again during the run; a thread starts only when no thread    *)
(* is alive and the completion callback of the one before has run.         *)
C27_OneWorker ==
    [][threads' > threads
         => /\ threads = 0
            /\ threads' = 1
            /\ ~is_processing
            /\ ~complete_pending
      ]_vars

(* An analysis in progress with the Start button enabled again.            *)
C27_Witness ==
    /\ threads = 1
    /\ worker.pc \in {"read", "velocity"}
    /\ is_processing
    /\ btn_start = "normal"

(* C28: every started analysis ends with is_processing reset: while        *)
(* is_processing holds, the thread is alive or its completion callback is  *)
(* pending (only _on_processing_complete resets the flag).                 *)
C28_ProcessingEnds ==
    is_processing => (threads > 0 \/ complete_pending)

----------------------------------------------------------------------------
(* C25: when both ear keypoints are missing they are both the nose, the    *)
(* ear spread is 0, and every frame with velocity < 5 (every first frame   *)
(* included) is Grooming: Sniffing Top and Sniffing Bottom do not occur    *)
(* and a head-direction label occurs only with velocity >= 5.              *)
Earless ==
    /\ calls > 0
    /\ "left_ear" \notin DOMAIN keypoints
    /\ "right_ear" \notin DOMAIN keypoints

C25_EarlessGrooming ==
    Earless =>
       /\ CallLeftEar = CallNose /\ CallRightEar = CallNose
       /\ distance(CallLeftEar, CallRightEar) = 0
       /\ Slow => result.attention = "Grooming"
       /\ entry_prev = None => result.attention = "Grooming"
       /\ result.attention \notin {"Sniffing Top", "Sniffing Bottom"}
       /\ result.attention \in {"Head Top", "Head Bottom",
                                 "Head Middle/Nothing"} => ~Slow

(* A still, earless frame with a long body and the nose 20 px from the     *)
(* bottom wall of the example arena: Grooming where a frame with ears      *)
(* would be Sniffing Bottom.                                               *)
C25_Witness ==
    /\ Earless
    /\ Classified
    /\ arena_bounds = ExampleArena
    /\ entry_prev = CallNose
    /\ ~Less(distance(CallNose, CallTail), GROOMING_DISTANCE)
    /\ result.location = "Bottom Stimulus"
    /\ NearBottom
    /\ result.attention = "Grooming"

----------------------------------------------------------------------------
(* C29: at most one _preview_loop callback is pending at any time, for     *)
(* every sequence of toggle_preview, stop_preview and step_preview (a      *)
(* stop followed by a restart before the scheduled callback fires          *)
(* included); preview_paused implies preview_running; a running loop has   *)
(* a capture to read from.                                                 *)
C29_OnePreviewChain ==
    /\ timers <= 1
    /\ preview_paused => preview_running
    /\ preview_running => preview_cap # None

----------------------------------------------------------------------------
(* C30: the installer runs its steps in the order conda, environment,      *)
(* dependencies, model, finalize, each only after every earlier one has    *)
(* succeeded; after a step that fails or raises (a conda dependency that   *)
(* does not install makes the dependencies step fail) no later step runs,  *)
(* _installation_complete is not reached for the run, the failure callback *)
(* is posted and resets is_installing; at most one installation thread is  *)
(* alive.                                                                  *)
AllOk(ran) == \A i \in 1..Len(ran) : ran[i].outcome = "ok"

C30_InstallerSteps ==
    LET r == installer
        n == Len(r.ran)
        failed == n > 0 /\ r.ran[n].outcome # "ok"
        completing == r.reached = "complete"
                      \/ \E i \in 1..Len(r.pending) : r.pending[i] = "complete"
    IN  /\ r.threads <= 1
        /\ r.threads = 1 <=> r.pc # 0
        /\ r.threads = 1 => r.is_installing
        /\ n <= Len(Steps)
        /\ \A i \in 1..n : r.ran[i].step = Steps[i]
        /\ \A i \in 1..n : i < n => r.ran[i].outcome = "ok"
        /\ r.pc # 0 => r.pc = n + 1 /\ AllOk(r.ran)
        /\ (r.failed_critical # {} /\ n >= 3) => r.ran[3].outcome = "fail"
        /\ failed =>
              /\ r.threads = 0
              /\ ~completing
              /\ \/ r.pending = <<"failed">> /\ r.is_installing
                 \/ r.pending = << >> /\ ~r.is_installing
                    /\ r.reached = "failed"
        /\ completing => n = Len(Steps) /\ AllOk(r.ran)

(* A run in which tensorflow did not install: the dependencies step has    *)
(* failed, nothing ran after it, and the failure callback has reset        *)
(* is_installing.                                                          *)
C30_Witness ==
    /\ installer.failed_critical = {"tensorflow"}
    /\ Len(installer.ran) = 3
    /\ installer.ran[3].outcome = "fail"
    /\ installer.reached = "failed"
    /\ ~installer.is_installing
    /\ installer.threads = 0

====
